---- MODULE Spec2Model ----
(***************************************************************************)
(* Ledger orchestration of NusaBiz-BE: TransactionService, ProductService  *)
(* and the transaction / product controllers, over a store that is atomic  *)
(* for one record at a time only.  Every `await` on a repository call is   *)
(* one step of the calling handler; a repository call may be rejected by   *)
(* the store, which the repositories report as { data: null, error }.      *)
(***************************************************************************)
EXTENDS Integers, Sequences, FiniteSets, TLC

\* ---------------------------------------------------------------- bounds
MaxTx == 1          \* Transactions rows created in one run
MaxFaults == 2      \* store calls rejected in one run
MaxStock == 11      \* cap on the stock a purchase or adjustment may reach
MaxEdits == 2       \* update calls made in one run

\* ------------------------------------------------------- program constants
LowStockThreshold == 10

\* ----------------------------------------------------------------- inputs
Pids == {1, 2}
TxIds == 1..MaxTx
\* Transactions ids the store can hand out: a second caller may be creating
\* its row while the first is creating the last one
Rows == 1..(MaxTx + 1)
Bids == {1, 2}
OwnerBids == {1}
Procs == {1}
\* two callers whose calls overlap
Racers == {1, 2}
Qtys == {2}
Prices == {3}
Amounts == {5}
InitStocks == {1, 10}
SecondStocks == {3}
InitBalances == {20}
\* req.body.current_stock: <<>> when the field is absent
CreateStocks == {<<>>, <<0>>, <<1>>, <<9>>, <<10>>}
QuantityChanges == {-1, 1}
Line == [pid : Pids, qty : Qtys, price : Prices]
SingleLines == [{1} -> Line]
LineSeqs == SingleLines \cup [{1, 2} -> Line]
StatusInputs == {"undefined", "pending", "complete", "cancel"}
\* data.amount of updateGeneralTransaction: <<>> when the field is absent
NewAmounts == {<<>>, <<5>>, <<7>>}
UpdateData == [amount : NewAmounts, status : StatusInputs]

\* ------------------------------------------------------------------ state
VARIABLES
    pexists,    \* Products rows that exist (deleted_at is null)
    pbiz,       \* Products.business_id
    stock,      \* Products.current_stock
    pstatus,    \* Products.stock_status
    nextPid,    \* next Products id
    balance,    \* Businesses.current_balance
    txs,        \* Transactions rows with their TransactionDetails
    nextId,     \* next Transactions id
    calls,      \* the handler invocation of each caller and its position
    fresh       \* the transaction recorded by the latest successful record call

vars == <<pexists, pbiz, stock, pstatus, nextPid, balance, txs, nextId, calls, fresh>>
store == <<pexists, pbiz, stock, pstatus, nextPid, balance, txs, nextId>>

NoTx == [exists |-> FALSE, business_id |-> 0, type |-> "none", category |-> "none",
         amount |-> 0, status |-> "none", deleted |-> FALSE, details |-> <<>>]

NoFresh == [tx |-> 0, stock |-> [p \in Pids |-> 0], balance |-> [b \in Bids |-> 0]]

IdleCall == [op |-> "none", pc |-> "idle", res |-> "none", err |-> "none",
             bid |-> 0, products |-> <<>>, i |-> 0, tx |-> 0, totalAmount |-> 0,
             rd |-> 0, old |-> NoTx, pid |-> 0, change |-> 0, type |-> "none",
             amount |-> 0, data |-> [amount |-> <<>>, status |-> "undefined"],
             seen |-> <<>>, edits |-> 0, skipped |-> {}, clean |-> TRUE,
             status |-> "none", n |-> 0, newStatus |-> "none", list |-> <<>>,
             updated |-> 0, failedLine |-> 0, faults |-> 0, faults0 |-> 0, swallowed |-> 0,
             preStock |-> [p \in Pids |-> 0], preStatus |-> [p \in Pids |-> "none"],
             preBalance |-> [b \in Bids |-> 0], preTxs |-> [t \in Rows |-> NoTx]]

\* ================================================== stock status resolver
\* ProductService.manageStockAndStatus, Step 3
ManageStatus(newStock) ==
    IF newStock = 0 THEN "out"
    ELSE IF newStock < LowStockThreshold THEN "low"
    ELSE "active"

\* a batch that still calls stock 10 low
BatchStatus_Inclusive(current_stock) ==
    IF current_stock = 0 THEN "out"
    ELSE IF current_stock <= LowStockThreshold THEN "low"
    ELSE "active"

\* ProductService.updateStockStatusBatch, loop body
BatchStatus(current_stock) ==
    IF current_stock = 0 THEN "out"
    ELSE IF current_stock < LowStockThreshold THEN "low"
    ELSE "active"

\* product controller createProduct, "Determine stock status"
CreateStatus(s) ==
    IF s = 0 THEN "out"
    ELSE IF s < LowStockThreshold THEN "low"
    ELSE "active"

\* const stock = current_stock || 0
CreateStock(current_stock) == IF current_stock = <<>> THEN 0 ELSE current_stock[1]

\* product 1 exists, product 2 may; both were stored by createProduct
Init ==
    /\ \E s1 \in InitStocks, e2 \in BOOLEAN, s2 \in SecondStocks :
         /\ pexists = [p \in Pids |-> p = 1 \/ e2]
         /\ pbiz = [p \in Pids |-> IF p = 1 \/ e2 THEN 1 ELSE 0]
         /\ stock = [p \in Pids |-> IF p = 1 THEN s1 ELSE IF e2 THEN s2 ELSE 0]
         /\ pstatus = [p \in Pids |-> IF p = 1 \/ e2 THEN CreateStatus(stock[p]) ELSE "none"]
         /\ nextPid = IF e2 THEN 3 ELSE 2
    /\ \E b0 \in InitBalances : balance = [b \in Bids |-> b0]
    /\ txs = [t \in Rows |-> NoTx]
    /\ nextId = 1
    /\ calls = [c \in Racers |-> IdleCall]
    /\ fresh = NoFresh

\* ------------------------------------------------------------- helpers
RECURSIVE SumAmount(_)
SumAmount(items) ==
    IF items = <<>> THEN 0
    ELSE items[1].qty * items[1].price + SumAmount(Tail(items))

\* quantity on the lines of `items` naming product p
RECURSIVE QtyOf(_, _)
QtyOf(items, p) ==
    IF items = <<>> THEN 0
    ELSE (IF items[1].pid = p THEN items[1].qty ELSE 0) + QtyOf(Tail(items), p)

Idle(c) == calls[c].pc \in {"idle", "done"}

RecordOps == {"recordProductSale", "recordStockPurchase", "createGeneralTransaction"}

\* store calls rejected so far, over all callers
RECURSIVE Rejected(_)
Rejected(cs) ==
    IF cs = {} THEN 0
    ELSE LET c == CHOOSE x \in cs : TRUE IN calls[c].faults + Rejected(cs \ {c})

\* a store call of caller c may be rejected while the run has fault budget left
FaultChoices(c) == IF Rejected(Racers) < MaxFaults THEN {FALSE, TRUE} ELSE {FALSE}

Begin(c, op) ==
    [IdleCall EXCEPT !.op = op, !.faults = calls[c].faults, !.faults0 = calls[c].faults,
                     !.edits = calls[c].edits,
                     !.clean = calls[c].clean /\ calls[c].res # "err",
                     !.preStock = stock, !.preStatus = pstatus,
                     !.preBalance = balance, !.preTxs = txs]

Return(call, res, err) == [call EXCEPT !.pc = "done", !.res = res, !.err = err]

Hit(call, f) == IF f THEN [call EXCEPT !.faults = @ + 1] ELSE call

\* ============================================================ createProduct
Call_createProduct(c, bid, current_stock) ==
    /\ Idle(c)
    /\ nextPid \in Pids
    /\ calls' = [calls EXCEPT ![c] =
            [Begin(c, "createProduct") EXCEPT !.pc = "pOwner", !.bid = bid,
                                              !.n = CreateStock(current_stock)]]
    /\ fresh' = NoFresh
    /\ UNCHANGED store

\* verifyBusinessOwnership: repos.businesses.findById
CreateProduct_Owner(c) ==
    /\ calls[c].pc = "pOwner"
    /\ \E f \in FaultChoices(c) :
         calls' = [calls EXCEPT ![c] =
            IF f THEN Return(Hit(calls[c], f), "err", "BusinessNotFound")
            ELSE [calls[c] EXCEPT !.pc = "pCreate"]]
    /\ UNCHANGED <<store, fresh>>

\* repos.products.create with the derived stock_status
CreateProduct_Create(c) ==
    /\ calls[c].pc = "pCreate"
    /\ \E f \in FaultChoices(c) :
         LET call == Hit(calls[c], f)
             st == CreateStatus(call.n)
         IN IF f
            THEN /\ calls' = [calls EXCEPT ![c] =
                        Return([call EXCEPT !.newStatus = st], "err", "CreateFailed")]
                 /\ UNCHANGED store
            ELSE /\ pexists' = [pexists EXCEPT ![nextPid] = TRUE]
                 /\ pbiz' = [pbiz EXCEPT ![nextPid] = call.bid]
                 /\ stock' = [stock EXCEPT ![nextPid] = call.n]
                 /\ pstatus' = [pstatus EXCEPT ![nextPid] = st]
                 /\ nextPid' = nextPid + 1
                 /\ calls' = [calls EXCEPT ![c] =
                        Return([call EXCEPT !.pid = nextPid, !.newStatus = st], "ok", "none")]
                 /\ UNCHANGED <<balance, txs, nextId>>
    /\ UNCHANGED fresh

\* ==================================================== manageStockAndStatus
Call_manageStockAndStatus(c, productId, quantityChange) ==
    /\ Idle(c)
    /\ stock[productId] + quantityChange <= MaxStock
    /\ calls' = [calls EXCEPT ![c] =
            [Begin(c, "manageStockAndStatus") EXCEPT !.pc = "mFetch", !.pid = productId,
                                                     !.change = quantityChange]]
    /\ fresh' = NoFresh
    /\ UNCHANGED store

\* Step 1: repos.products.findById
Manage_Fetch(c) ==
    /\ calls[c].pc = "mFetch"
    /\ \E f \in FaultChoices(c) :
         LET call == Hit(calls[c], f)
             newStock == stock[call.pid] + call.change
         IN calls' = [calls EXCEPT ![c] =
              IF f \/ ~pexists[call.pid] THEN Return(call, "err", "ProductNotFound")
              ELSE IF newStock < 0 THEN Return(call, "err", "InsufficientStock")
              ELSE [call EXCEPT !.pc = "mWrite", !.n = newStock,
                                !.newStatus = ManageStatus(newStock)]]
    /\ UNCHANGED <<store, fresh>>

\* Step 4: repos.products.update({ current_stock, stock_status })
Manage_Write(c) ==
    /\ calls[c].pc = "mWrite"
    /\ \E f \in FaultChoices(c) :
         LET call == Hit(calls[c], f)
         IN IF f \/ ~pexists[call.pid]
            THEN /\ calls' = [calls EXCEPT ![c] = Return(call, "err", "UpdateFailed")]
                 /\ UNCHANGED store
            ELSE /\ stock' = [stock EXCEPT ![call.pid] = call.n]
                 /\ pstatus' = [pstatus EXCEPT ![call.pid] = call.newStatus]
                 /\ calls' = [calls EXCEPT ![c] = Return(call, "ok", "none")]
                 /\ UNCHANGED <<pexists, pbiz, nextPid, balance, txs, nextId>>
    /\ UNCHANGED fresh

\* ================================================== updateStockStatusBatch
\* the rows ProductRepository.findByBusinessId returns, in id order
RECURSIVE ProductsFrom(_, _)
ProductsFrom(p, businessId) ==
    IF p \notin Pids THEN <<>>
    ELSE (IF pexists[p] /\ pbiz[p] = businessId
          THEN <<[id |-> p, current_stock |-> stock[p], stock_status |-> pstatus[p]]>>
          ELSE <<>>) \o ProductsFrom(p + 1, businessId)

Call_updateStockStatusBatch(c, businessId) ==
    /\ Idle(c)
    /\ calls' = [calls EXCEPT ![c] =
            [Begin(c, "updateStockStatusBatch") EXCEPT !.pc = "bList", !.bid = businessId]]
    /\ fresh' = NoFresh
    /\ UNCHANGED store

Batch_List(c) ==
    /\ calls[c].pc = "bList"
    /\ \E f \in FaultChoices(c) :
         LET call == Hit(calls[c], f)
             rows == ProductsFrom(1, call.bid)
         IN calls' = [calls EXCEPT ![c] =
              IF f THEN Return(call, "err", "ListFailed")
              ELSE IF rows = <<>> THEN Return(call, "ok", "none")
              ELSE [call EXCEPT !.pc = "bItem", !.list = rows, !.i = 1]]
    /\ UNCHANGED <<store, fresh>>

\* one iteration of the loop; the result of updateStockStatus is not inspected
Batch_Item(c) ==
    /\ calls[c].pc = "bItem"
    /\ LET product == calls[c].list[calls[c].i]
           newStatus == BatchStatus(product.current_stock)
           differs == product.stock_status # newStatus
       IN \E f \in (IF differs THEN FaultChoices(c) ELSE {FALSE}) :
            LET call0 == Hit(calls[c], f)
                call1 == [call0 EXCEPT !.n = product.current_stock, !.newStatus = newStatus,
                                       !.pid = product.id,
                                       !.updated = IF differs THEN @ + 1 ELSE @,
                                       !.swallowed = IF f THEN @ + 1 ELSE @]
                call2 == IF call1.i = Len(call1.list) THEN Return(call1, "ok", "none")
                         ELSE [call1 EXCEPT !.i = @ + 1]
            IN /\ calls' = [calls EXCEPT ![c] = call2]
               /\ pstatus' = IF differs /\ ~f /\ pexists[product.id]
                             THEN [pstatus EXCEPT ![product.id] = newStatus]
                             ELSE pstatus
    /\ UNCHANGED <<pexists, pbiz, stock, nextPid, balance, txs, nextId, fresh>>

\* ======================================================== recordProductSale
\* a delete that only sets the deletion marker
HardDelete_Soft(t, id) == [t EXCEPT ![id].deleted = TRUE]

\* BaseRepository.delete on Transactions; TransactionDetails go with it
\* (ON DELETE CASCADE)
HardDelete(t, id) == [t EXCEPT ![id] = NoTx]

\* a check that only rejects an empty shelf
Insufficient_EmptyOnly(current_stock, quantity) == current_stock <= 0

\* Step 1: product.current_stock < item.quantity
Insufficient(current_stock, quantity) == current_stock < quantity

\* a stock write that stops at an empty shelf
SaleNewStock_Clamped(current_stock, quantity) ==
    IF current_stock - quantity < 0 THEN 0 ELSE current_stock - quantity

\* a sale that takes one unit whatever the line says
SaleNewStock_OneUnit(current_stock, quantity) == current_stock - 1

SaleNewStock(current_stock, quantity) == current_stock - quantity
\* a rollback that writes the stock it read
SaleRestoredStock_Noop(current_stock, quantity) == current_stock

SaleRestoredStock(current_stock, quantity) == current_stock + quantity
SaleNewBalance(current_balance, totalAmount) == current_balance + totalAmount

Call_recordProductSale(c, businessId, products) ==
    /\ Idle(c)
    /\ nextId <= MaxTx
    /\ calls' = [calls EXCEPT ![c] =
            [Begin(c, "recordProductSale") EXCEPT !.pc = "sValidate", !.bid = businessId,
                                                  !.products = products, !.i = 1]]
    /\ fresh' = NoFresh
    /\ UNCHANGED store

\* Step 1: one findById per line, checked against the stock just read
Sale_Validate(c) ==
    /\ calls[c].pc = "sValidate"
    /\ \E f \in FaultChoices(c) :
         LET call == Hit(calls[c], f)
             item == call.products[call.i]
         IN calls' = [calls EXCEPT ![c] =
              IF f \/ ~pexists[item.pid] THEN Return(call, "err", "ProductNotFound")
              ELSE IF Insufficient(stock[item.pid], item.qty)
                   THEN Return(call, "err", "InsufficientStock")
              ELSE IF call.i < Len(call.products)
                   THEN [call EXCEPT !.i = @ + 1, !.seen = Append(@, stock[item.pid])]
              ELSE [call EXCEPT !.pc = "sCreate", !.totalAmount = SumAmount(call.products),
                                !.seen = Append(@, stock[item.pid])]]
    /\ UNCHANGED <<store, fresh>>

\* Steps 2-3: createWithDetails, the header insert
Sale_Create(c) ==
    /\ calls[c].pc = "sCreate"
    /\ \E f \in FaultChoices(c) :
         LET call == Hit(calls[c], f)
         IN IF f
            THEN /\ calls' = [calls EXCEPT ![c] = Return(call, "err", "CreateFailed")]
                 /\ UNCHANGED <<txs, nextId>>
            ELSE /\ txs' = [txs EXCEPT ![nextId] =
                        [exists |-> TRUE, business_id |-> call.bid, type |-> "Income",
                         category |-> "Sales", amount |-> call.totalAmount,
                         status |-> "complete", deleted |-> FALSE, details |-> <<>>]]
                 /\ nextId' = nextId + 1
                 /\ calls' = [calls EXCEPT ![c] = [call EXCEPT !.pc = "sDetails", !.tx = nextId]]
    /\ UNCHANGED <<pexists, pbiz, stock, pstatus, nextPid, balance, fresh>>

\* a createWithDetails that returns the error and leaves the header
Sale_Details_NoRollback(c) ==
    /\ calls[c].pc = "sDetails"
    /\ \E f \in FaultChoices(c) :
         LET call == Hit(calls[c], f)
         IN IF f
            THEN /\ calls' = [calls EXCEPT ![c] = Return(call, "err", "DetailsFailed")]
                 /\ UNCHANGED txs
            ELSE /\ txs' = [txs EXCEPT ![call.tx].details = call.products]
                 /\ calls' = [calls EXCEPT ![c] = [call EXCEPT !.pc = "sFetch", !.i = 1]]
    /\ UNCHANGED <<pexists, pbiz, stock, pstatus, nextPid, balance, nextId, fresh>>

\* createWithDetails, the TransactionDetails insert
Sale_Details(c) ==
    /\ calls[c].pc = "sDetails"
    /\ \E f \in FaultChoices(c) :
         LET call == Hit(calls[c], f)
         IN IF f
            THEN /\ calls' = [calls EXCEPT ![c] =
                        [call EXCEPT !.pc = "sDelete", !.err = "DetailsFailed"]]
                 /\ UNCHANGED txs
            ELSE /\ txs' = [txs EXCEPT ![call.tx].details = call.products]
                 /\ calls' = [calls EXCEPT ![c] = [call EXCEPT !.pc = "sFetch", !.i = 1]]
    /\ UNCHANGED <<pexists, pbiz, stock, pstatus, nextPid, balance, nextId, fresh>>

\* Step 4: re-read the product of line i
Sale_Fetch(c) ==
    /\ calls[c].pc = "sFetch"
    /\ \E f \in FaultChoices(c) :
         LET call == Hit(calls[c], f)
             item == call.products[call.i]
         IN calls' = [calls EXCEPT ![c] =
              IF f \/ ~pexists[item.pid]
              THEN [call EXCEPT !.pc = "sDelete", !.err = "ProductNotFoundDuringUpdate",
                                !.failedLine = call.i]
              ELSE [call EXCEPT !.pc = "sWrite", !.rd = stock[item.pid]]]
    /\ UNCHANGED <<store, fresh>>

\* a stock loop that does not look at the result of updateStock
Sale_Write_Unchecked(c) ==
    /\ calls[c].pc = "sWrite"
    /\ \E f \in FaultChoices(c) :
         LET call == Hit(calls[c], f)
             item == call.products[call.i]
         IN /\ stock' = IF f \/ ~pexists[item.pid] THEN stock
                        ELSE [stock EXCEPT ![item.pid] = call.rd - item.qty]
            /\ calls' = [calls EXCEPT ![c] =
                    IF call.i < Len(call.products)
                    THEN [call EXCEPT !.pc = "sFetch", !.i = @ + 1]
                    ELSE [call EXCEPT !.pc = "sBizFetch"]]
    /\ UNCHANGED <<pexists, pbiz, pstatus, nextPid, balance, txs, nextId, fresh>>

\* Step 4: updateStock(productId, current_stock - quantity) of line i
Sale_Write(c) ==
    /\ calls[c].pc = "sWrite"
    /\ \E f \in FaultChoices(c) :
         LET call == Hit(calls[c], f)
             item == call.products[call.i]
         IN IF f \/ ~pexists[item.pid]
            THEN /\ calls' = [calls EXCEPT ![c] =
                        [call EXCEPT !.pc = "sDelete", !.err = "StockWriteFailed",
                                     !.failedLine = call.i]]
                 /\ UNCHANGED stock
            ELSE /\ stock' = [stock EXCEPT ![item.pid] = SaleNewStock(call.rd, item.qty)]
                 /\ calls' = [calls EXCEPT ![c] =
                        IF call.i < Len(call.products)
                        THEN [call EXCEPT !.pc = "sFetch", !.i = @ + 1]
                        ELSE [call EXCEPT !.pc = "sBizFetch"]]
    /\ UNCHANGED <<pexists, pbiz, pstatus, nextPid, balance, txs, nextId, fresh>>

\* Step 5: businesses.findById
Sale_BizFetch(c) ==
    /\ calls[c].pc = "sBizFetch"
    /\ \E f \in FaultChoices(c) :
         LET call == Hit(calls[c], f)
         IN calls' = [calls EXCEPT ![c] =
              IF f THEN [call EXCEPT !.pc = "sRbFetch", !.i = 1, !.err = "BusinessNotFound"]
              ELSE [call EXCEPT !.pc = "sBizWrite", !.rd = balance[call.bid]]]
    /\ UNCHANGED <<store, fresh>>

\* Step 5: updateBalance(businessId, current_balance + totalAmount)
Sale_BizWrite(c) ==
    /\ calls[c].pc = "sBizWrite"
    /\ \E f \in FaultChoices(c) :
         LET call == Hit(calls[c], f)
         IN IF f
            THEN /\ calls' = [calls EXCEPT ![c] =
                        [call EXCEPT !.pc = "sRbFetch", !.i = 1, !.err = "BalanceWriteFailed"]]
                 /\ UNCHANGED <<balance, fresh>>
            ELSE /\ balance' = [balance EXCEPT ![call.bid] =
                                    SaleNewBalance(call.rd, call.totalAmount)]
                 /\ calls' = [calls EXCEPT ![c] = Return(call, "ok", "none")]
                 /\ fresh' = [tx |-> call.tx, stock |-> call.preStock,
                              balance |-> call.preBalance]
    /\ UNCHANGED <<pexists, pbiz, stock, pstatus, nextPid, txs, nextId>>

\* ROLLBACK of step 5: findById of line i; a product that is not found is skipped
Sale_RollbackFetch(c) ==
    /\ calls[c].pc = "sRbFetch"
    /\ \E f \in FaultChoices(c) :
         LET call == Hit(calls[c], f)
             item == call.products[call.i]
         IN calls' = [calls EXCEPT ![c] =
              IF f \/ ~pexists[item.pid]
              THEN [call EXCEPT !.swallowed = @ + 1,
                                !.pc = IF call.i < Len(call.products) THEN "sRbFetch" ELSE "sDelete",
                                !.i = IF call.i < Len(call.products) THEN @ + 1 ELSE @]
              ELSE [call EXCEPT !.pc = "sRbWrite", !.rd = stock[item.pid]]]
    /\ UNCHANGED <<store, fresh>>

\* ROLLBACK of step 5: updateStock(productId, current_stock + quantity), result ignored
Sale_RollbackWrite(c) ==
    /\ calls[c].pc = "sRbWrite"
    /\ \E f \in FaultChoices(c) :
         LET call == Hit(calls[c], f)
             item == call.products[call.i]
             next == [call EXCEPT !.swallowed = IF f THEN @ + 1 ELSE @,
                                 !.pc = IF call.i < Len(call.products) THEN "sRbFetch" ELSE "sDelete",
                                 !.i = IF call.i < Len(call.products) THEN @ + 1 ELSE @]
         IN /\ calls' = [calls EXCEPT ![c] = next]
            /\ stock' = IF f \/ ~pexists[item.pid] THEN stock
                        ELSE [stock EXCEPT ![item.pid] = SaleRestoredStock(call.rd, item.qty)]
    /\ UNCHANGED <<pexists, pbiz, pstatus, nextPid, balance, txs, nextId, fresh>>

\* ROLLBACK: transactions.delete(transaction.id), result ignored; return the error
Sale_Delete(c) ==
    /\ calls[c].pc = "sDelete"
    /\ \E f \in FaultChoices(c) :
         LET call == Hit(calls[c], f)
         IN /\ calls' = [calls EXCEPT ![c] =
                  Return([call EXCEPT !.swallowed = IF f THEN @ + 1 ELSE @], "err", call.err)]
            /\ txs' = IF f THEN txs ELSE HardDelete(txs, call.tx)
    /\ UNCHANGED <<pexists, pbiz, stock, pstatus, nextPid, balance, nextId, fresh>>

SaleSteps(c) ==
    \/ Sale_Validate(c)
    \/ Sale_Create(c)
    \/ Sale_Details(c)
    \/ Sale_Fetch(c)
    \/ Sale_Write(c)
    \/ Sale_BizFetch(c)
    \/ Sale_BizWrite(c)
    \/ Sale_RollbackFetch(c)
    \/ Sale_RollbackWrite(c)
    \/ Sale_Delete(c)

recordProductSale(c) ==
    \/ \E b \in OwnerBids, items \in LineSeqs : Call_recordProductSale(c, b, items)
    \/ SaleSteps(c)
\* ====================================================== recordStockPurchase
PurchaseNewStock(current_stock, quantity) == current_stock + quantity
\* a rollback that adds the quantity once more, as the sale's rollback does
PurchaseRestoredStock_Add(current_stock, quantity) == current_stock + quantity

PurchaseRestoredStock(current_stock, quantity) == current_stock - quantity
\* a purchase that credits the business
PurchaseNewBalance_Credit(current_balance, totalAmount) == current_balance + totalAmount

PurchaseNewBalance(current_balance, totalAmount) == current_balance - totalAmount

\* every line's quantity fits under the cap on stock
WithinCap(items) == \A p \in Pids : stock[p] + QtyOf(items, p) <= MaxStock

Call_recordStockPurchase(c, businessId, products) ==
    /\ Idle(c)
    /\ nextId <= MaxTx
    /\ WithinCap(products)
    /\ calls' = [calls EXCEPT ![c] =
            [Begin(c, "recordStockPurchase") EXCEPT !.pc = "uValidate", !.bid = businessId,
                                                  !.products = products, !.i = 1]]
    /\ fresh' = NoFresh
    /\ UNCHANGED store

\* Step 1: one findById per line; products must exist
Purchase_Validate(c) ==
    /\ calls[c].pc = "uValidate"
    /\ \E f \in FaultChoices(c) :
         LET call == Hit(calls[c], f)
             item == call.products[call.i]
         IN calls' = [calls EXCEPT ![c] =
              IF f \/ ~pexists[item.pid] THEN Return(call, "err", "ProductNotFound")
              ELSE IF call.i < Len(call.products) THEN [call EXCEPT !.i = @ + 1]
              ELSE [call EXCEPT !.pc = "uCreate", !.totalAmount = SumAmount(call.products)]]
    /\ UNCHANGED <<store, fresh>>

\* Steps 2-3: createWithDetails, the header insert
Purchase_Create(c) ==
    /\ calls[c].pc = "uCreate"
    /\ \E f \in FaultChoices(c) :
         LET call == Hit(calls[c], f)
         IN IF f
            THEN /\ calls' = [calls EXCEPT ![c] = Return(call, "err", "CreateFailed")]
                 /\ UNCHANGED <<txs, nextId>>
            ELSE /\ txs' = [txs EXCEPT ![nextId] =
                        [exists |-> TRUE, business_id |-> call.bid, type |-> "Expense",
                         category |-> "Stock Purchase", amount |-> call.totalAmount,
                         status |-> "complete", deleted |-> FALSE, details |-> <<>>]]
                 /\ nextId' = nextId + 1
                 /\ calls' = [calls EXCEPT ![c] = [call EXCEPT !.pc = "uDetails", !.tx = nextId]]
    /\ UNCHANGED <<pexists, pbiz, stock, pstatus, nextPid, balance, fresh>>

\* createWithDetails, the TransactionDetails insert
Purchase_Details(c) ==
    /\ calls[c].pc = "uDetails"
    /\ \E f \in FaultChoices(c) :
         LET call == Hit(calls[c], f)
         IN IF f
            THEN /\ calls' = [calls EXCEPT ![c] =
                        [call EXCEPT !.pc = "uDelete", !.err = "DetailsFailed"]]
                 /\ UNCHANGED txs
            ELSE /\ txs' = [txs EXCEPT ![call.tx].details = call.products]
                 /\ calls' = [calls EXCEPT ![c] = [call EXCEPT !.pc = "uFetch", !.i = 1]]
    /\ UNCHANGED <<pexists, pbiz, stock, pstatus, nextPid, balance, nextId, fresh>>

\* Step 4: re-read the product of line i
Purchase_Fetch(c) ==
    /\ calls[c].pc = "uFetch"
    /\ \E f \in FaultChoices(c) :
         LET call == Hit(calls[c], f)
             item == call.products[call.i]
         IN calls' = [calls EXCEPT ![c] =
              IF f \/ ~pexists[item.pid]
              THEN [call EXCEPT !.pc = "uDelete", !.err = "ProductNotFoundDuringUpdate",
                                !.failedLine = call.i]
              ELSE [call EXCEPT !.pc = "uWrite", !.rd = stock[item.pid]]]
    /\ UNCHANGED <<store, fresh>>

\* Step 4: updateStock(productId, current_stock + quantity) of line i
Purchase_Write(c) ==
    /\ calls[c].pc = "uWrite"
    /\ \E f \in FaultChoices(c) :
         LET call == Hit(calls[c], f)
             item == call.products[call.i]
         IN IF f \/ ~pexists[item.pid]
            THEN /\ calls' = [calls EXCEPT ![c] =
                        [call EXCEPT !.pc = "uDelete", !.err = "StockWriteFailed",
                                     !.failedLine = call.i]]
                 /\ UNCHANGED stock
            ELSE /\ stock' = [stock EXCEPT ![item.pid] = PurchaseNewStock(call.rd, item.qty)]
                 /\ calls' = [calls EXCEPT ![c] =
                        IF call.i < Len(call.products)
                        THEN [call EXCEPT !.pc = "uFetch", !.i = @ + 1]
                        ELSE [call EXCEPT !.pc = "uBizFetch"]]
    /\ UNCHANGED <<pexists, pbiz, pstatus, nextPid, balance, txs, nextId, fresh>>

\* Step 5: businesses.findById
Purchase_BizFetch(c) ==
    /\ calls[c].pc = "uBizFetch"
    /\ \E f \in FaultChoices(c) :
         LET call == Hit(calls[c], f)
         IN calls' = [calls EXCEPT ![c] =
              IF f THEN [call EXCEPT !.pc = "uRbFetch", !.i = 1, !.err = "BusinessNotFound"]
              ELSE [call EXCEPT !.pc = "uBizWrite", !.rd = balance[call.bid]]]
    /\ UNCHANGED <<store, fresh>>

\* Step 5: updateBalance(businessId, current_balance - totalAmount)
Purchase_BizWrite(c) ==
    /\ calls[c].pc = "uBizWrite"
    /\ \E f \in FaultChoices(c) :
         LET call == Hit(calls[c], f)
         IN IF f
            THEN /\ calls' = [calls EXCEPT ![c] =
                        [call EXCEPT !.pc = "uRbFetch", !.i = 1, !.err = "BalanceWriteFailed"]]
                 /\ UNCHANGED <<balance, fresh>>
            ELSE /\ balance' = [balance EXCEPT ![call.bid] =
                                    PurchaseNewBalance(call.rd, call.totalAmount)]
                 /\ calls' = [calls EXCEPT ![c] = Return(call, "ok", "none")]
                 /\ fresh' = [tx |-> call.tx, stock |-> call.preStock,
                              balance |-> call.preBalance]
    /\ UNCHANGED <<pexists, pbiz, stock, pstatus, nextPid, txs, nextId>>

\* ROLLBACK of step 5: findById of line i; a product that is not found is skipped
Purchase_RollbackFetch(c) ==
    /\ calls[c].pc = "uRbFetch"
    /\ \E f \in FaultChoices(c) :
         LET call == Hit(calls[c], f)
             item == call.products[call.i]
         IN calls' = [calls EXCEPT ![c] =
              IF f \/ ~pexists[item.pid]
              THEN [call EXCEPT !.swallowed = @ + 1,
                                !.pc = IF call.i < Len(call.products) THEN "uRbFetch" ELSE "uDelete",
                                !.i = IF call.i < Len(call.products) THEN @ + 1 ELSE @]
              ELSE [call EXCEPT !.pc = "uRbWrite", !.rd = stock[item.pid]]]
    /\ UNCHANGED <<store, fresh>>

\* ROLLBACK of step 5: updateStock(productId, current_stock - quantity), result ignored
Purchase_RollbackWrite(c) ==
    /\ calls[c].pc = "uRbWrite"
    /\ \E f \in FaultChoices(c) :
         LET call == Hit(calls[c], f)
             item == call.products[call.i]
             next == [call EXCEPT !.swallowed = IF f THEN @ + 1 ELSE @,
                                 !.pc = IF call.i < Len(call.products) THEN "uRbFetch" ELSE "uDelete",
                                 !.i = IF call.i < Len(call.products) THEN @ + 1 ELSE @]
         IN /\ calls' = [calls EXCEPT ![c] = next]
            /\ stock' = IF f \/ ~pexists[item.pid] THEN stock
                        ELSE [stock EXCEPT ![item.pid] = PurchaseRestoredStock(call.rd, item.qty)]
    /\ UNCHANGED <<pexists, pbiz, pstatus, nextPid, balance, txs, nextId, fresh>>

\* ROLLBACK: transactions.delete(transaction.id), result ignored; return the error
Purchase_Delete(c) ==
    /\ calls[c].pc = "uDelete"
    /\ \E f \in FaultChoices(c) :
         LET call == Hit(calls[c], f)
         IN /\ calls' = [calls EXCEPT ![c] =
                  Return([call EXCEPT !.swallowed = IF f THEN @ + 1 ELSE @], "err", call.err)]
            /\ txs' = IF f THEN txs ELSE HardDelete(txs, call.tx)
    /\ UNCHANGED <<pexists, pbiz, stock, pstatus, nextPid, balance, nextId, fresh>>

PurchaseSteps(c) ==
    \/ Purchase_Validate(c)
    \/ Purchase_Create(c)
    \/ Purchase_Details(c)
    \/ Purchase_Fetch(c)
    \/ Purchase_Write(c)
    \/ Purchase_BizFetch(c)
    \/ Purchase_BizWrite(c)
    \/ Purchase_RollbackFetch(c)
    \/ Purchase_RollbackWrite(c)
    \/ Purchase_Delete(c)

recordStockPurchase(c) ==
    \/ \E b \in OwnerBids, items \in LineSeqs : Call_recordStockPurchase(c, b, items)
    \/ PurchaseSteps(c)

\* ================================================= createGeneralTransaction
\* a default of pending for a transaction created without a status
GeneralStatus_Pending(status) == IF status = "undefined" THEN "pending" ELSE status

\* status: status || "complete"
GeneralStatus(status) == IF status = "undefined" THEN "complete" ELSE status

\* a balance step that adds the amount whatever the type
GeneralNewBalance_AlwaysAdd(current_balance, type, amount) == current_balance + amount

GeneralNewBalance(current_balance, type, amount) ==
    IF type = "Income" THEN current_balance + amount ELSE current_balance - amount

Call_createGeneralTransaction(c, businessId, type, amount, status) ==
    /\ Idle(c)
    /\ nextId <= MaxTx
    /\ calls' = [calls EXCEPT ![c] =
            [Begin(c, "createGeneralTransaction") EXCEPT !.pc = "gCreate", !.bid = businessId,
                    !.type = type, !.amount = amount, !.status = status]]
    /\ fresh' = NoFresh
    /\ UNCHANGED store

\* Step 1: transactions.create
General_Create(c) ==
    /\ calls[c].pc = "gCreate"
    /\ \E f \in FaultChoices(c) :
         LET call == Hit(calls[c], f)
             st == GeneralStatus(call.status)
         IN IF f
            THEN /\ calls' = [calls EXCEPT ![c] = Return(call, "err", "CreateFailed")]
                 /\ UNCHANGED <<txs, nextId, fresh>>
            ELSE /\ txs' = [txs EXCEPT ![nextId] =
                        [exists |-> TRUE, business_id |-> call.bid, type |-> call.type,
                         category |-> "none", amount |-> call.amount,
                         status |-> st, deleted |-> FALSE, details |-> <<>>]]
                 /\ nextId' = nextId + 1
                 /\ calls' = [calls EXCEPT ![c] =
                        IF st = "complete" THEN [call EXCEPT !.pc = "gBizFetch", !.tx = nextId]
                        ELSE Return([call EXCEPT !.tx = nextId], "ok", "none")]
                 /\ fresh' = IF st = "complete" THEN fresh
                             ELSE [tx |-> nextId, stock |-> call.preStock,
                                   balance |-> call.preBalance]
    /\ UNCHANGED <<pexists, pbiz, stock, pstatus, nextPid, balance>>

\* Step 2: businesses.findById
General_BizFetch(c) ==
    /\ calls[c].pc = "gBizFetch"
    /\ \E f \in FaultChoices(c) :
         LET call == Hit(calls[c], f)
         IN calls' = [calls EXCEPT ![c] =
              IF f THEN [call EXCEPT !.pc = "gDelete", !.err = "BusinessNotFound"]
              ELSE [call EXCEPT !.pc = "gBizWrite", !.rd = balance[call.bid]]]
    /\ UNCHANGED <<store, fresh>>

\* Step 2: updateBalance(businessId, newBalance)
General_BizWrite(c) ==
    /\ calls[c].pc = "gBizWrite"
    /\ \E f \in FaultChoices(c) :
         LET call == Hit(calls[c], f)
         IN IF f
            THEN /\ calls' = [calls EXCEPT ![c] =
                        [call EXCEPT !.pc = "gDelete", !.err = "BalanceWriteFailed"]]
                 /\ UNCHANGED <<balance, fresh>>
            ELSE /\ balance' = [balance EXCEPT ![call.bid] =
                                    GeneralNewBalance(call.rd, call.type, call.amount)]
                 /\ calls' = [calls EXCEPT ![c] = Return(call, "ok", "none")]
                 /\ fresh' = [tx |-> call.tx, stock |-> call.preStock,
                              balance |-> call.preBalance]
    /\ UNCHANGED <<pexists, pbiz, stock, pstatus, nextPid, txs, nextId>>

\* ROLLBACK: transactions.delete(transaction.id), result ignored
General_Delete(c) ==
    /\ calls[c].pc = "gDelete"
    /\ \E f \in FaultChoices(c) :
         LET call == Hit(calls[c], f)
         IN /\ calls' = [calls EXCEPT ![c] =
                  Return([call EXCEPT !.swallowed = IF f THEN @ + 1 ELSE @], "err", call.err)]
            /\ txs' = IF f THEN txs ELSE HardDelete(txs, call.tx)
    /\ UNCHANGED <<pexists, pbiz, stock, pstatus, nextPid, balance, nextId, fresh>>

GeneralSteps(c) ==
    \/ General_Create(c)
    \/ General_BizFetch(c)
    \/ General_BizWrite(c)
    \/ General_Delete(c)

createGeneralTransaction(c) ==
    \/ \E b \in OwnerBids, ty \in {"Income", "Expense"}, a \in Amounts, st \in StatusInputs :
            Call_createGeneralTransaction(c, b, ty, a, st)
    \/ GeneralSteps(c)

\* ======================================================== deleteTransaction
\* a read that does not filter on deleted_at
Visible_IgnoringMarker(id) == txs[id].exists

\* a row as the reads see it: deleted_at must be null
Visible(id) == txs[id].exists /\ ~txs[id].deleted

ReversedBalance(current_balance, type, amount) ==
    IF type = "Income" THEN current_balance - amount ELSE current_balance + amount

ReversedStock(current_stock, type, quantity) ==
    IF type = "Income" THEN current_stock + quantity ELSE current_stock - quantity

\* the call c is about to make on transactionId comes directly after its
\* successful call `ops` on that transaction, itself directly after the record
FollowsRecord(c, transactionId, ops) ==
    /\ fresh.tx = transactionId
    /\ calls[c].tx = transactionId
    /\ calls[c].op \in ops
    /\ calls[c].res = "ok"

Call_deleteTransaction(c, businessId, transactionId) ==
    /\ Idle(c)
    /\ calls' = [calls EXCEPT ![c] =
            [Begin(c, "deleteTransaction") EXCEPT !.pc = "dFind", !.bid = businessId,
                                                  !.tx = transactionId]]
    /\ fresh' = IF FollowsRecord(c, transactionId, RecordOps \cup {"cancelTransaction"})
                 THEN fresh ELSE NoFresh
    /\ UNCHANGED store

\* a delete that reverses a cancelled transaction like a complete one
Delete_Find_CancelReverses(c) ==
    /\ calls[c].pc = "dFind"
    /\ \E f \in FaultChoices(c) :
         LET call == Hit(calls[c], f)
             transaction == txs[call.tx]
         IN calls' = [calls EXCEPT ![c] =
              IF f \/ ~Visible(call.tx) THEN Return(call, "err", "TransactionNotFound")
              ELSE IF transaction.business_id # call.bid THEN Return(call, "err", "NotOwner")
              ELSE IF transaction.status \in {"complete", "cancel"}
                   THEN [call EXCEPT !.pc = "dBizFetch", !.old = transaction]
              ELSE [call EXCEPT !.pc = "dSoft", !.old = transaction]]
    /\ UNCHANGED <<store, fresh>>

\* a delete that reverses whatever the status is
Delete_Find_AnyStatus(c) ==
    /\ calls[c].pc = "dFind"
    /\ \E f \in FaultChoices(c) :
         LET call == Hit(calls[c], f)
             transaction == txs[call.tx]
         IN calls' = [calls EXCEPT ![c] =
              IF f \/ ~Visible(call.tx) THEN Return(call, "err", "TransactionNotFound")
              ELSE IF transaction.business_id # call.bid THEN Return(call, "err", "NotOwner")
              ELSE [call EXCEPT !.pc = "dBizFetch", !.old = transaction]]
    /\ UNCHANGED <<store, fresh>>

\* findWithDetails, the ownership check and the status test
Delete_Find(c) ==
    /\ calls[c].pc = "dFind"
    /\ \E f \in FaultChoices(c) :
         LET call == Hit(calls[c], f)
             transaction == txs[call.tx]
         IN calls' = [calls EXCEPT ![c] =
              IF f \/ ~Visible(call.tx) THEN Return(call, "err", "TransactionNotFound")
              ELSE IF transaction.business_id # call.bid THEN Return(call, "err", "NotOwner")
              ELSE IF transaction.status = "complete"
                   THEN [call EXCEPT !.pc = "dBizFetch", !.old = transaction]
              ELSE [call EXCEPT !.pc = "dSoft", !.old = transaction]]
    /\ UNCHANGED <<store, fresh>>

\* where the call goes after the balance part
AfterBalance(call) ==
    IF Len(call.old.details) > 0 THEN [call EXCEPT !.pc = "dProdFetch", !.i = 1]
    ELSE [call EXCEPT !.pc = "dSoft"]

\* a delete that gives up when it cannot read the business
Delete_BizFetch_Abort(c) ==
    /\ calls[c].pc = "dBizFetch"
    /\ \E f \in FaultChoices(c) :
         LET call == Hit(calls[c], f)
         IN calls' = [calls EXCEPT ![c] =
              IF f THEN Return(call, "err", "BusinessNotFound")
              ELSE [call EXCEPT !.pc = "dBizWrite", !.rd = balance[call.bid]]]
    /\ UNCHANGED <<store, fresh>>

\* 1. Reverse Balance: businesses.findById; skipped when the read fails
\* (skipped: the reversal steps that did not take effect, 0 for the balance
\* and i for line i)
Delete_BizFetch(c) ==
    /\ calls[c].pc = "dBizFetch"
    /\ \E f \in FaultChoices(c) :
         LET call == Hit(calls[c], f)
         IN calls' = [calls EXCEPT ![c] =
              IF f THEN AfterBalance([call EXCEPT !.swallowed = @ + 1,
                                                  !.skipped = @ \cup {0}])
              ELSE [call EXCEPT !.pc = "dBizWrite", !.rd = balance[call.bid]]]
    /\ UNCHANGED <<store, fresh>>

\* 1. Reverse Balance: updateBalance, result ignored
Delete_BizWrite(c) ==
    /\ calls[c].pc = "dBizWrite"
    /\ \E f \in FaultChoices(c) :
         LET call == Hit(calls[c], f)
         IN /\ calls' = [calls EXCEPT ![c] =
                  AfterBalance([call EXCEPT !.swallowed = IF f THEN @ + 1 ELSE @,
                                            !.skipped = IF f THEN @ \cup {0} ELSE @])]
            /\ balance' = IF f THEN balance
                          ELSE [balance EXCEPT ![call.bid] =
                                  ReversedBalance(call.rd, call.old.type, call.old.amount)]
    /\ UNCHANGED <<pexists, pbiz, stock, pstatus, nextPid, txs, nextId, fresh>>

\* where the call goes after line i
AfterDetail(call) ==
    IF call.i < Len(call.old.details) THEN [call EXCEPT !.pc = "dProdFetch", !.i = @ + 1]
    ELSE [call EXCEPT !.pc = "dSoft"]

\* 2. Reverse Stock: products.findById of line i; skipped when not found
Delete_ProdFetch(c) ==
    /\ calls[c].pc = "dProdFetch"
    /\ \E f \in FaultChoices(c) :
         LET call == Hit(calls[c], f)
             detail == call.old.details[call.i]
         IN calls' = [calls EXCEPT ![c] =
              IF f \/ ~pexists[detail.pid]
              THEN AfterDetail([call EXCEPT !.swallowed = @ + 1, !.skipped = @ \cup {call.i}])
              ELSE [call EXCEPT !.pc = "dProdWrite", !.rd = stock[detail.pid]]]
    /\ UNCHANGED <<store, fresh>>

\* 2. Reverse Stock: updateStock of line i, result ignored
Delete_ProdWrite(c) ==
    /\ calls[c].pc = "dProdWrite"
    /\ \E f \in FaultChoices(c) :
         LET call == Hit(calls[c], f)
             detail == call.old.details[call.i]
         IN /\ calls' = [calls EXCEPT ![c] =
                  AfterDetail([call EXCEPT !.swallowed = IF f THEN @ + 1 ELSE @,
                                           !.skipped = IF f \/ ~pexists[detail.pid]
                                                       THEN @ \cup {call.i} ELSE @])]
            /\ stock' = IF f \/ ~pexists[detail.pid] THEN stock
                        ELSE [stock EXCEPT ![detail.pid] =
                                ReversedStock(call.rd, call.old.type, detail.qty)]
    /\ UNCHANGED <<pexists, pbiz, pstatus, nextPid, balance, txs, nextId, fresh>>

\* 3. Soft Delete Transaction: BaseRepository.softDelete
Delete_Soft(c) ==
    /\ calls[c].pc = "dSoft"
    /\ \E f \in FaultChoices(c) :
         LET call == Hit(calls[c], f)
         IN IF f \/ ~Visible(call.tx)
            THEN /\ calls' = [calls EXCEPT ![c] = Return(call, "err", "SoftDeleteFailed")]
                 /\ UNCHANGED txs
            ELSE /\ txs' = [txs EXCEPT ![call.tx].deleted = TRUE]
                 /\ calls' = [calls EXCEPT ![c] = Return(call, "ok", "none")]
    /\ UNCHANGED <<pexists, pbiz, stock, pstatus, nextPid, balance, nextId, fresh>>

DeleteSteps(c) ==
    \/ Delete_Find(c)
    \/ Delete_BizFetch(c)
    \/ Delete_BizWrite(c)
    \/ Delete_ProdFetch(c)
    \/ Delete_ProdWrite(c)
    \/ Delete_Soft(c)

\* the steps of a delete of a transaction without lines: the loop over
\* TransactionDetails has nothing to run
DeleteLinelessSteps(c) ==
    \/ Delete_Find(c)
    \/ Delete_BizFetch(c)
    \/ Delete_BizWrite(c)
    \/ Delete_Soft(c)

deleteTransaction(c) ==
    \/ \E b \in Bids, t \in TxIds : Call_deleteTransaction(c, b, t)
    \/ DeleteSteps(c)

\* ======================================================== cancelTransaction
Call_cancelTransaction(c, businessId, transactionId) ==
    /\ Idle(c)
    /\ calls' = [calls EXCEPT ![c] =
            [Begin(c, "cancelTransaction") EXCEPT !.pc = "cOwner", !.bid = businessId,
                                                  !.tx = transactionId]]
    /\ fresh' = IF FollowsRecord(c, transactionId, RecordOps) THEN fresh ELSE NoFresh
    /\ UNCHANGED store

\* verifyBusinessOwnership: repos.businesses.findById
Cancel_Owner(c) ==
    /\ calls[c].pc = "cOwner"
    /\ \E f \in FaultChoices(c) :
         calls' = [calls EXCEPT ![c] =
            IF f THEN Return(Hit(calls[c], f), "err", "BusinessNotFound")
            ELSE [calls[c] EXCEPT !.pc = "cFind"]]
    /\ UNCHANGED <<store, fresh>>

\* repos.transactions.findById and the ownership test
Cancel_Find(c) ==
    /\ calls[c].pc = "cFind"
    /\ \E f \in FaultChoices(c) :
         LET call == Hit(calls[c], f)
         IN calls' = [calls EXCEPT ![c] =
              IF f \/ ~Visible(call.tx) \/ txs[call.tx].business_id # call.bid
              THEN Return(call, "err", "TransactionNotFound")
              ELSE [call EXCEPT !.pc = "cWrite", !.old = txs[call.tx]]]
    /\ UNCHANGED <<store, fresh>>

\* a cancel that also takes the amount back out of the balance
Cancel_Write_Reversing(c) ==
    /\ calls[c].pc = "cWrite"
    /\ txs' = [txs EXCEPT ![calls[c].tx].status = "cancel"]
    /\ balance' = [balance EXCEPT ![calls[c].bid] = @ - calls[c].old.amount]
    /\ calls' = [calls EXCEPT ![c] = Return(calls[c], "ok", "none")]
    /\ UNCHANGED <<pexists, pbiz, stock, pstatus, nextPid, nextId, fresh>>

\* repos.transactions.update(transactionId, { status: 'cancel' })
Cancel_Write(c) ==
    /\ calls[c].pc = "cWrite"
    /\ \E f \in FaultChoices(c) :
         LET call == Hit(calls[c], f)
         IN IF f \/ ~Visible(call.tx)
            THEN /\ calls' = [calls EXCEPT ![c] = Return(call, "err", "CancelFailed")]
                 /\ UNCHANGED txs
            ELSE /\ txs' = [txs EXCEPT ![call.tx].status = "cancel"]
                 /\ calls' = [calls EXCEPT ![c] = Return(call, "ok", "none")]
    /\ UNCHANGED <<pexists, pbiz, stock, pstatus, nextPid, balance, nextId, fresh>>

cancelTransaction(c) ==
    \/ \E b \in Bids, t \in TxIds : Call_cancelTransaction(c, b, t)
    \/ Cancel_Owner(c)
    \/ Cancel_Find(c)
    \/ Cancel_Write(c)

\* ================================================ updateGeneralTransaction
\* 3. Handle Balance Update: revert the old amount, apply the new one
AdjustedBalance(current_balance, type, oldAmount, newAmount) ==
    IF type = "Income" THEN (current_balance - oldAmount) + newAmount
    ELSE (current_balance + oldAmount) - newAmount

\* 2. Prepare update payload, applied to the row by BaseRepository.update
UpdatePayload(row, data) ==
    [row EXCEPT !.status = IF data.status # "undefined" THEN data.status ELSE @,
                !.amount = IF data.amount # <<>> THEN data.amount[1] ELSE @]

\* data.amount !== undefined && data.amount !== old.amount && old.status === "complete"
AmountChanged(old, data) ==
    /\ data.amount # <<>>
    /\ data.amount[1] # old.amount
    /\ old.status = "complete"

Call_updateGeneralTransaction(c, businessId, transactionId, data) ==
    /\ Idle(c)
    /\ calls[c].edits < MaxEdits
    /\ calls' = [calls EXCEPT ![c] =
            [Begin(c, "updateGeneralTransaction") EXCEPT !.pc = "xFind", !.bid = businessId,
                    !.tx = transactionId, !.data = data, !.edits = @ + 1]]
    /\ fresh' = NoFresh
    /\ UNCHANGED store

\* 1. Get existing transaction, and the ownership test
Update_Find(c) ==
    /\ calls[c].pc = "xFind"
    /\ \E f \in FaultChoices(c) :
         LET call == Hit(calls[c], f)
             oldTransaction == txs[call.tx]
         IN calls' = [calls EXCEPT ![c] =
              IF f \/ ~Visible(call.tx) THEN Return(call, "err", "TransactionNotFound")
              ELSE IF oldTransaction.business_id # call.bid THEN Return(call, "err", "NotOwner")
              ELSE IF AmountChanged(oldTransaction, call.data)
                   THEN [call EXCEPT !.pc = "xBizFetch", !.old = oldTransaction]
              ELSE [call EXCEPT !.pc = "xUpdate", !.old = oldTransaction]]
    /\ UNCHANGED <<store, fresh>>

\* 3. businesses.findById; the error is dropped and a missing business skipped
Update_BizFetch(c) ==
    /\ calls[c].pc = "xBizFetch"
    /\ \E f \in FaultChoices(c) :
         LET call == Hit(calls[c], f)
         IN calls' = [calls EXCEPT ![c] =
              IF f THEN [call EXCEPT !.pc = "xUpdate", !.swallowed = @ + 1]
              ELSE [call EXCEPT !.pc = "xBizWrite", !.rd = balance[call.bid]]]
    /\ UNCHANGED <<store, fresh>>

\* 3. updateBalance(businessId, currentBalance), result ignored
Update_BizWrite(c) ==
    /\ calls[c].pc = "xBizWrite"
    /\ \E f \in FaultChoices(c) :
         LET call == Hit(calls[c], f)
         IN /\ calls' = [calls EXCEPT ![c] =
                  [call EXCEPT !.pc = "xUpdate", !.swallowed = IF f THEN @ + 1 ELSE @]]
            /\ balance' = IF f THEN balance
                          ELSE [balance EXCEPT ![call.bid] =
                                  AdjustedBalance(call.rd, call.old.type, call.old.amount,
                                                  call.data.amount[1])]
    /\ UNCHANGED <<pexists, pbiz, stock, pstatus, nextPid, txs, nextId, fresh>>

\* 4. Update Transaction: transactions.update(transactionId, updates)
Update_Write(c) ==
    /\ calls[c].pc = "xUpdate"
    /\ \E f \in FaultChoices(c) :
         LET call == Hit(calls[c], f)
         IN IF f \/ ~Visible(call.tx)
            THEN /\ calls' = [calls EXCEPT ![c] = Return(call, "err", "UpdateFailed")]
                 /\ UNCHANGED txs
            ELSE /\ txs' = [txs EXCEPT ![call.tx] = UpdatePayload(@, call.data)]
                 /\ calls' = [calls EXCEPT ![c] = Return(call, "ok", "none")]
    /\ UNCHANGED <<pexists, pbiz, stock, pstatus, nextPid, balance, nextId, fresh>>

UpdateSteps(c) ==
    \/ Update_Find(c)
    \/ Update_BizFetch(c)
    \/ Update_BizWrite(c)
    \/ Update_Write(c)

updateGeneralTransaction(c) ==
    \/ \E b \in Bids, t \in TxIds, data \in UpdateData :
            Call_updateGeneralTransaction(c, b, t, data)
    \/ UpdateSteps(c)

\* ======================================================== updateTransaction
\* the controller of PUT /transactions/:transactionId
Call_updateTransaction(c, businessId, transactionId, status) ==
    /\ Idle(c)
    /\ calls[c].edits < MaxEdits
    /\ calls' = [calls EXCEPT ![c] =
            [Begin(c, "updateTransaction") EXCEPT !.pc = "tOwner", !.bid = businessId,
                    !.tx = transactionId, !.data = [amount |-> <<>>, status |-> status],
                    !.edits = @ + 1]]
    /\ fresh' = NoFresh
    /\ UNCHANGED store

\* verifyBusinessOwnership: repos.businesses.findById
UpdateTx_Owner(c) ==
    /\ calls[c].pc = "tOwner"
    /\ \E f \in FaultChoices(c) :
         calls' = [calls EXCEPT ![c] =
            IF f THEN Return(Hit(calls[c], f), "err", "BusinessNotFound")
            ELSE [calls[c] EXCEPT !.pc = "tFind"]]
    /\ UNCHANGED <<store, fresh>>

\* repos.transactions.findById and the ownership test
UpdateTx_Find(c) ==
    /\ calls[c].pc = "tFind"
    /\ \E f \in FaultChoices(c) :
         LET call == Hit(calls[c], f)
         IN calls' = [calls EXCEPT ![c] =
              IF f \/ ~Visible(call.tx) \/ txs[call.tx].business_id # call.bid
              THEN Return(call, "err", "TransactionNotFound")
              ELSE [call EXCEPT !.pc = "tWrite", !.old = txs[call.tx]]]
    /\ UNCHANGED <<store, fresh>>

\* repos.transactions.update(transactionId, { description, status: status || undefined })
UpdateTx_Write(c) ==
    /\ calls[c].pc = "tWrite"
    /\ \E f \in FaultChoices(c) :
         LET call == Hit(calls[c], f)
         IN IF f \/ ~Visible(call.tx)
            THEN /\ calls' = [calls EXCEPT ![c] = Return(call, "err", "UpdateFailed")]
                 /\ UNCHANGED txs
            ELSE /\ txs' = [txs EXCEPT ![call.tx] = UpdatePayload(@, call.data)]
                 /\ calls' = [calls EXCEPT ![c] = Return(call, "ok", "none")]
    /\ UNCHANGED <<pexists, pbiz, stock, pstatus, nextPid, balance, nextId, fresh>>

updateTransaction(c) ==
    \/ \E b \in Bids, t \in TxIds, st \in StatusInputs : Call_updateTransaction(c, b, t, st)
    \/ UpdateTx_Owner(c)
    \/ UpdateTx_Find(c)
    \/ UpdateTx_Write(c)

\* ============================================================ product calls
createProduct(c) ==
    \/ \E b \in OwnerBids, s \in CreateStocks : Call_createProduct(c, b, s)
    \/ CreateProduct_Owner(c)
    \/ CreateProduct_Create(c)

manageStockAndStatus(c) ==
    \/ \E p \in Pids, q \in QuantityChanges : Call_manageStockAndStatus(c, p, q)
    \/ Manage_Fetch(c)
    \/ Manage_Write(c)

updateStockStatusBatch(c) ==
    \/ \E b \in Bids : Call_updateStockStatusBatch(c, b)
    \/ Batch_List(c)
    \/ Batch_Item(c)

\* ============================================================ specification
\* the ledger: one caller, calls do not overlap
Next ==
    \E c \in Procs :
        \/ recordProductSale(c)
        \/ recordStockPurchase(c)
        \/ createGeneralTransaction(c)
        \/ deleteTransaction(c)
        \/ cancelTransaction(c)

Spec == Init /\ [][Next]_vars

\* the stock status paths, with one-line sales as the source of stale statuses
NextStock ==
    \E c \in Procs :
        \/ createProduct(c)
        \/ manageStockAndStatus(c)
        \/ updateStockStatusBatch(c)
        \/ \E b \in OwnerBids, items \in SingleLines : Call_recordProductSale(c, b, items)
        \/ SaleSteps(c)

SpecStock == Init /\ [][NextStock]_vars

\* the life of a transaction after it was recorded: edits and cancellation
NextUpdate ==
    \E c \in Procs :
        \/ \E b \in OwnerBids, items \in SingleLines : Call_recordProductSale(c, b, items)
        \/ SaleSteps(c)
        \/ createGeneralTransaction(c)
        \/ updateGeneralTransaction(c)
        \/ updateTransaction(c)
        \/ cancelTransaction(c)

SpecUpdate == Init /\ [][NextUpdate]_vars

\* two callers: one-line sales and general transactions created without a
\* status, whose steps interleave
NextRace ==
    \E c \in Racers :
        \/ \E b \in OwnerBids, items \in SingleLines : Call_recordProductSale(c, b, items)
        \/ SaleSteps(c)
        \/ \E b \in OwnerBids, ty \in {"Income", "Expense"}, a \in Amounts :
                Call_createGeneralTransaction(c, b, ty, a, "undefined")
        \/ GeneralSteps(c)

SpecRace == Init /\ [][NextRace]_vars

\* the ledger with edits: one-line sales and purchases, general transactions,
\* updates that carry no status field, and deletions
NextLedger ==
    \E c \in Procs :
        \/ \E b \in OwnerBids, items \in SingleLines : Call_recordProductSale(c, b, items)
        \/ SaleSteps(c)
        \/ \E b \in OwnerBids, items \in SingleLines : Call_recordStockPurchase(c, b, items)
        \/ PurchaseSteps(c)
        \/ createGeneralTransaction(c)
        \/ \E b \in Bids, t \in TxIds, a \in NewAmounts :
                Call_updateGeneralTransaction(c, b, t, [amount |-> a, status |-> "undefined"])
        \/ UpdateSteps(c)
        \/ deleteTransaction(c)

SpecLedger == Init /\ [][NextLedger]_vars

\* the life of a general transaction: created without a status, edited
\* without a status field, deleted, and called again after its deletion
NextGeneral ==
    \E c \in Procs :
        \/ \E b \in OwnerBids, ty \in {"Income", "Expense"}, a \in Amounts :
                Call_createGeneralTransaction(c, b, ty, a, "undefined")
        \/ GeneralSteps(c)
        \/ \E b \in Bids, t \in TxIds, a \in NewAmounts :
                Call_updateGeneralTransaction(c, b, t, [amount |-> a, status |-> "undefined"])
        \/ UpdateSteps(c)
        \/ \E b \in Bids, t \in TxIds : Call_deleteTransaction(c, b, t)
        \/ DeleteLinelessSteps(c)

SpecGeneral == Init /\ [][NextGeneral]_vars

\* no caller is inside a call
Quiet == \A d \in Racers : Idle(d)

\* the other caller is outside a call or has not made the first read of its
\* deleteTransaction yet: the two requests arrive in the same state of the store
Together(c) == \A d \in Racers \ {c} : Idle(d) \/ calls[d].pc = "dFind"

SaleAlone(c, businessId, products) ==
    Quiet /\ Call_recordProductSale(c, businessId, products)

GeneralAlone(c, businessId, type, amount) ==
    Quiet /\ Call_createGeneralTransaction(c, businessId, type, amount, "undefined")

DeleteTogether(c, businessId, transactionId) ==
    Together(c) /\ Call_deleteTransaction(c, businessId, transactionId)

\* a transaction is recorded while nothing else runs; then two callers delete,
\* their steps interleaved from the first read on
NextDeleteRace ==
    \/ \E c \in Procs :
          \/ \E b \in OwnerBids, items \in SingleLines : SaleAlone(c, b, items)
          \/ SaleSteps(c)
          \/ \E b \in OwnerBids, ty \in {"Income", "Expense"}, a \in Amounts :
                  GeneralAlone(c, b, ty, a)
          \/ GeneralSteps(c)
    \/ \E c \in Racers :
          \/ \E b \in Bids, t \in TxIds : DeleteTogether(c, b, t)
          \/ DeleteSteps(c)

SpecDeleteRace == Init /\ [][NextDeleteRace]_vars

\* ================================================================== claims
\* the status table of the specification (4.1)
Resolve(n) ==
    IF n = 0 THEN "out"
    ELSE IF n \in 1..9 THEN "low"
    ELSE IF n >= 10 THEN "active"
    ELSE "unspecified"

\* sum over the lines of quantity x unit price
RECURSIVE ExpectedAmount(_)
ExpectedAmount(items) ==
    IF Len(items) = 0 THEN 0
    ELSE items[Len(items)].qty * items[Len(items)].price
         + ExpectedAmount(SubSeq(items, 1, Len(items) - 1))

Finished(c, op) == calls[c].op = op /\ calls[c].pc = "done"
Succeeded(c, op) == Finished(c, op) /\ calls[c].res = "ok"
AllIdle == \A c \in Procs : Idle(c)
\* no store call of the current call of c was rejected
NoFault(c) == calls[c].faults = calls[c].faults0
\* the products, balances and transactions are as they were when the call began
StoreAsBefore(c) ==
    /\ stock = calls[c].preStock
    /\ balance = calls[c].preBalance
    /\ txs = calls[c].preTxs

\* the one transaction a record call of c created
CreatedTx(c, type, category) ==
    [exists |-> TRUE, business_id |-> calls[c].bid, type |-> type, category |-> category,
     amount |-> ExpectedAmount(calls[c].products), status |-> "complete",
     deleted |-> FALSE, details |-> calls[c].products]

BadLine(c) ==
    \E k \in 1..Len(calls[c].products) :
        \/ ~pexists[calls[c].products[k].pid]
        \/ calls[c].preStock[calls[c].products[k].pid] < calls[c].products[k].qty

\* C2: a recordProductSale with a line naming a missing product or asking
\* for more than the current stock never writes (stocks, balance and
\* transactions stay as they were) and returns an error, whichever line it is.
C2_ValidationBlocks ==
    \A c \in Procs : (calls[c].op = "recordProductSale" /\ BadLine(c)) =>
        /\ StoreAsBefore(c)
        /\ pstatus = calls[c].preStatus
        /\ calls[c].pc = "done" => calls[c].res = "err"

C2_Witness ==
    \E c \in Procs :
        /\ Finished(c, "recordProductSale")
        /\ calls[c].err = "InsufficientStock"
        /\ calls[c].i = 2

\* C3 (as claimed): when the stock write of line k fails in a sale or a
\* purchase, the stocks written by lines 1..k-1 are back at their values
\* before the call and the created transaction is gone.  Stated for the runs
\* in which the compensating delete itself was accepted.
C3_StockFailureRollsBack ==
    \A c \in Procs :
        ( /\ calls[c].op \in {"recordProductSale", "recordStockPurchase"}
          /\ calls[c].pc = "done"
          /\ calls[c].err = "StockWriteFailed"
          /\ calls[c].swallowed = 0 ) =>
        /\ stock = calls[c].preStock
        /\ txs = calls[c].preTxs

\* C4 (as claimed): a successful deleteTransaction directly after the record
\* call of a complete sale, purchase or general transaction returns stocks
\* and balance to their values before the record call.
C4_DeleteInverts ==
    \A c \in Procs :
        ( /\ Succeeded(c, "deleteTransaction")
          /\ fresh.tx = calls[c].tx
          /\ calls[c].old.status = "complete" ) =>
        /\ stock = fresh.stock
        /\ balance = fresh.balance

\* C5: cancelTransaction changes nothing but the status of its transaction,
\* which becomes cancel: stocks, stock statuses, balances, amounts and
\* deletion markers stay as they were.
C5_CancelOnlyStatus ==
    \A c \in Procs : calls[c].op = "cancelTransaction" =>
        /\ stock = calls[c].preStock
        /\ pstatus = calls[c].preStatus
        /\ balance = calls[c].preBalance
        /\ \A t \in Rows :
              \/ txs[t] = calls[c].preTxs[t]
              \/ t = calls[c].tx /\ txs[t] = [calls[c].preTxs[t] EXCEPT !.status = "cancel"]
        /\ (calls[c].pc = "done" /\ calls[c].res = "ok") => txs[calls[c].tx].status = "cancel"

C5_Witness ==
    \E c \in Procs :
        /\ Succeeded(c, "cancelTransaction")
        /\ calls[c].old.status = "complete"
        /\ calls[c].old.category = "Sales"
        /\ balance[calls[c].bid] = calls[c].preBalance[calls[c].bid]
        /\ \E p \in Pids : stock[p] \notin InitStocks \cup SecondStocks \cup {0}

\* C6 (as claimed): whenever no call is in progress, every product's stored
\* stock_status equals resolve(current_stock).
C6_StatusMatchesStock ==
    AllIdle => \A p \in Pids : pexists[p] => pstatus[p] = Resolve(stock[p])

\* C7 (as claimed): whenever no call is in progress, every product's
\* current_stock is >= 0.
C7_StockNonNegative ==
    AllIdle => \A p \in Pids : stock[p] >= 0

\* C8: every status computed by createProduct, manageStockAndStatus and
\* updateStockStatusBatch for a stock n >= 0 is out for 0, low for 1..9 and
\* active from 10 on, and the three computations agree on every stored stock.
C8_ResolveTable ==
    /\ \A c \in Procs :
          (calls[c].newStatus # "none" /\ calls[c].n >= 0) =>
              /\ calls[c].newStatus = Resolve(calls[c].n)
              /\ calls[c].newStatus \in {"out", "low", "active"}
    /\ \A p \in Pids :
          /\ ManageStatus(stock[p]) = BatchStatus(stock[p])
          /\ BatchStatus(stock[p]) = CreateStatus(stock[p])

C8_Witness ==
    \E c \in Procs :
        /\ Succeeded(c, "updateStockStatusBatch")
        /\ calls[c].updated = 1
        /\ calls[c].n = LowStockThreshold
        /\ calls[c].newStatus = "active"
        /\ pstatus[calls[c].pid] = "active"

\* C9: a successful recordStockPurchase raises each product's stock by the
\* quantity on its lines, lowers the balance by the sum of quantity x
\* purchasePrice and creates one complete Expense / Stock Purchase
\* transaction of that amount; a purchase whose products exist and whose
\* store calls are all accepted succeeds whatever the stock is.
C9_PurchaseEffect ==
    \A c \in Procs :
        /\ Succeeded(c, "recordStockPurchase") =>
              /\ stock = [p \in Pids |-> calls[c].preStock[p] + QtyOf(calls[c].products, p)]
              /\ balance = [calls[c].preBalance EXCEPT
                              ![calls[c].bid] = @ - ExpectedAmount(calls[c].products)]
              /\ ~calls[c].preTxs[calls[c].tx].exists
              /\ txs = [calls[c].preTxs EXCEPT
                          ![calls[c].tx] = CreatedTx(c, "Expense", "Stock Purchase")]
        /\ ( /\ Finished(c, "recordStockPurchase")
             /\ NoFault(c)
             /\ \A k \in 1..Len(calls[c].products) : pexists[calls[c].products[k].pid] ) =>
              calls[c].res = "ok"

C9_Witness ==
    \E c \in Procs :
        /\ Succeeded(c, "recordStockPurchase")
        /\ \E k \in 1..Len(calls[c].products) :
              calls[c].preStock[calls[c].products[k].pid] < calls[c].products[k].qty

\* the sale of c failed at step 5: business read or balance write
BalanceStepFailed(c) ==
    /\ Finished(c, "recordProductSale")
    /\ calls[c].err \in {"BusinessNotFound", "BalanceWriteFailed"}

PurchaseBalanceStepFailed(c) ==
    /\ Finished(c, "recordStockPurchase")
    /\ calls[c].err \in {"BusinessNotFound", "BalanceWriteFailed"}

C14_DeleteInactiveOnlyMarks ==
    \A c \in Procs :
        ( /\ calls[c].op = "deleteTransaction"
          /\ calls[c].preTxs[calls[c].tx].status \in {"pending", "cancel"} ) =>
        /\ stock = calls[c].preStock
        /\ pstatus = calls[c].preStatus
        /\ balance = calls[c].preBalance
        /\ \A t \in Rows :
              \/ txs[t] = calls[c].preTxs[t]
              \/ t = calls[c].tx /\ txs[t] = [calls[c].preTxs[t] EXCEPT !.deleted = TRUE]
        /\ (calls[c].pc = "done" /\ calls[c].res = "ok") => txs[calls[c].tx].deleted

C14_Witness ==
    \E c \in Procs :
        /\ Succeeded(c, "deleteTransaction")
        /\ calls[c].old.status = "cancel"
        /\ calls[c].old.category = "Sales"
        /\ txs[calls[c].tx].deleted
        /\ \E p \in Pids : stock[p] \notin InitStocks \cup SecondStocks \cup {0}

\* the status createGeneralTransaction is asked to create with
RequestedStatus(c) == IF calls[c].status = "undefined" THEN "complete" ELSE calls[c].status

\* the balance effect of a general transaction of c
SignedAmount(c) == IF calls[c].type = "Income" THEN calls[c].amount ELSE 0 - calls[c].amount

\* C15: createGeneralTransaction never changes a product stock; when it
\* succeeds the transaction has the requested status (complete when none is
\* given) and the balance has changed by +amount (Income) or -amount
\* (Expense) if that status is complete and not at all otherwise; when it
\* fails the balance is unchanged.
C15_GeneralBalanceIffComplete ==
    \A c \in Procs : calls[c].op = "createGeneralTransaction" =>
        /\ stock = calls[c].preStock
        /\ pstatus = calls[c].preStatus
        /\ Succeeded(c, "createGeneralTransaction") =>
              /\ txs[calls[c].tx].status = RequestedStatus(c)
              /\ balance = IF RequestedStatus(c) = "complete"
                           THEN [calls[c].preBalance EXCEPT ![calls[c].bid] = @ + SignedAmount(c)]
                           ELSE calls[c].preBalance
        /\ (calls[c].pc = "done" /\ calls[c].res = "err") => balance = calls[c].preBalance

C15_Witness ==
    \E c \in Procs :
        /\ Succeeded(c, "createGeneralTransaction")
        /\ calls[c].status = "undefined"
        /\ calls[c].type = "Expense"
        /\ balance[calls[c].bid] = calls[c].preBalance[calls[c].bid] - calls[c].amount

\* the general transaction of c failed at step 2: business read or balance write
GeneralBalanceStepFailed(c) ==
    /\ Finished(c, "createGeneralTransaction")
    /\ calls[c].err \in {"BusinessNotFound", "BalanceWriteFailed"}

EditedBalance(c) ==
    LET old == calls[c].preTxs[calls[c].tx]
        data == calls[c].data
    IN IF data.amount # <<>> /\ data.amount[1] # old.amount /\ old.status = "complete"
       THEN [calls[c].preBalance EXCEPT ![calls[c].bid] =
                IF old.type = "Income" THEN @ + (data.amount[1] - old.amount)
                ELSE @ + (old.amount - data.amount[1])]
       ELSE calls[c].preBalance

\* C17 (as claimed): after a successful updateGeneralTransaction the balance
\* has moved by (new - old) for Income and (old - new) for Expense when a
\* different amount is given and the existing status is complete, and has
\* not moved otherwise.
C17_UpdateAdjustsBalance ==
    \A c \in Procs : Succeeded(c, "updateGeneralTransaction") => balance = EditedBalance(c)

\* C18 (as claimed): updateGeneralTransaction never changes the status of the
\* transaction it updates.
C18_UpdateKeepsStatus ==
    \A c \in Procs : calls[c].op = "updateGeneralTransaction" =>
        txs[calls[c].tx].status = calls[c].preTxs[calls[c].tx].status

\* the moves the lifecycle of a transaction allows
AllowedMove(from, to) ==
    \/ from = to
    \/ <<from, to>> \in {<<"pending", "complete">>, <<"pending", "cancel">>,
                         <<"complete", "cancel">>}

\* C19 (as claimed): in every step the status of every transaction stays as
\* it is or moves pending -> complete, pending -> cancel or complete -> cancel.
C19_StatusMovesForward ==
    [][\A t \in Rows : (txs[t].exists /\ txs'[t].exists) =>
            AllowedMove(txs[t].status, txs'[t].status)]_vars

\* the store has rejected no call so far
NothingRejected == \A c \in Racers : calls[c].faults = 0

\* C20 (as claimed): every non-deleted transaction that has lines has
\* amount = sum over its lines of quantity x unit price.  Stated for the runs
\* in which the store accepts every call.
C20_AmountIsSumOfLines ==
    NothingRejected =>
        \A t \in Rows :
            (txs[t].exists /\ ~txs[t].deleted /\ Len(txs[t].details) > 0) =>
                txs[t].amount = ExpectedAmount(txs[t].details)

\* c1 and c2 are two callers whose latest calls are successful one-line sales
\* of the same product, checked in step 1 against the same stock value
SalesOfSameStock(c1, c2) ==
    /\ c1 # c2
    /\ Succeeded(c1, "recordProductSale")
    /\ Succeeded(c2, "recordProductSale")
    /\ calls[c1].products[1].pid = calls[c2].products[1].pid
    /\ calls[c1].seen = calls[c2].seen

\* C12: when two overlapping sales of one product both pass the stock check
\* against the same stock value s and both succeed, the stock ends at
\* s - q1 - q2 (below zero when s < q1 + q2) or with one decrement lost, at
\* s - q1 or s - q2.
C12_ConcurrentSalesRace ==
    \A c1, c2 \in Racers : SalesOfSameStock(c1, c2) =>
        LET s == calls[c1].seen[1]
            q1 == calls[c1].products[1].qty
            q2 == calls[c2].products[1].qty
        IN stock[calls[c1].products[1].pid] \in {s - q1 - q2, s - q1, s - q2}

\* both sales were valid alone, both succeeded, and the stock is negative
C12_Witness ==
    \E c1, c2 \in Racers :
        /\ SalesOfSameStock(c1, c2)
        /\ calls[c1].seen[1] >= calls[c1].products[1].qty
        /\ calls[c2].seen[1] >= calls[c2].products[1].qty
        /\ stock[calls[c1].products[1].pid] < 0

\* the latest call of c succeeded and wrote the balance
WroteBalance(c) ==
    \/ Succeeded(c, "recordProductSale")
    \/ Succeeded(c, "createGeneralTransaction") /\ RequestedStatus(c) = "complete"

\* the delta the latest call of c applies to the balance
BalanceDelta(c) ==
    IF calls[c].op = "recordProductSale" THEN ExpectedAmount(calls[c].products)
    ELSE SignedAmount(c)

\* c1 and c2 both changed the balance of one business from the same read
ReadSameBalance(c1, c2) ==
    /\ c1 # c2
    /\ WroteBalance(c1)
    /\ WroteBalance(c2)
    /\ calls[c1].bid = calls[c2].bid
    /\ calls[c1].rd = calls[c2].rd

\* C13: when two overlapping balance-changing calls on one business both read
\* the same current_balance r and both report success, the balance ends at
\* r plus the delta of one of them only: the other delta is lost.
C13_LostBalanceUpdate ==
    \A c1, c2 \in Racers : ReadSameBalance(c1, c2) =>
        balance[calls[c1].bid] \in {calls[c1].rd + BalanceDelta(c1),
                                    calls[c1].rd + BalanceDelta(c2)}

\* a sale and an expense raced, and the sale's delta is the one that is lost
C13_Witness ==
    \E c1, c2 \in Racers :
        /\ ReadSameBalance(c1, c2)
        /\ calls[c1].op = "recordProductSale"
        /\ calls[c2].op = "createGeneralTransaction"
        /\ calls[c2].type = "Expense"
        /\ balance[calls[c1].bid] = calls[c1].rd - calls[c2].amount
        /\ txs[calls[c1].tx].status = "complete"
        /\ txs[calls[c2].tx].status = "complete"

\* createWithDetails of c failed on the lines, after the header was created
DetailsFailed(c) ==
    /\ calls[c].op \in {"recordProductSale", "recordStockPurchase"}
    /\ calls[c].pc = "done"
    /\ calls[c].err = "DetailsFailed"

WrittenThrough(c, k) ==
    LET done == SubSeq(calls[c].products, 1, k)
    IN [p \in Pids |->
          IF calls[c].op = "recordProductSale" THEN calls[c].preStock[p] - QtyOf(done, p)
          ELSE calls[c].preStock[p] + QtyOf(done, p)]

\* C23: in recordProductSale and recordStockPurchase the stock write of line
\* i happens when exactly the lines before it are written, the balance is
\* written only when every line's stock is written, and a call that ends on
\* a failed stock step has not written the balance.
C23_StockThenBalance ==
    [][\A c \in Procs :
        calls[c].op \in {"recordProductSale", "recordStockPurchase"} =>
          /\ (stock' # stock /\ calls[c].pc \in {"sWrite", "uWrite"}) =>
                /\ stock = WrittenThrough(c, calls[c].i - 1)
                /\ stock' = WrittenThrough(c, calls[c].i)
          /\ balance' # balance =>
                /\ calls[c].pc \in {"sBizWrite", "uBizWrite"}
                /\ stock = WrittenThrough(c, Len(calls[c].products))
                /\ stock' = stock
          /\ ( /\ calls'[c].pc = "done"
               /\ calls'[c].err \in {"StockWriteFailed", "ProductNotFoundDuringUpdate"} ) =>
                balance' = calls'[c].preBalance]_vars

C23_Witness ==
    \E c \in Procs :
        /\ Finished(c, "recordProductSale")
        /\ calls[c].err = "StockWriteFailed"
        /\ calls[c].failedLine = 2
        /\ stock # calls[c].preStock
        /\ balance = calls[c].preBalance

\* quantity of product p on the lines 1..k of `details` whose reversal took effect
RECURSIVE ReversedQty(_, _, _, _)
ReversedQty(details, skipped, p, k) ==
    IF k = 0 THEN 0
    ELSE (IF k \notin skipped /\ details[k].pid = p THEN details[k].qty ELSE 0)
         + ReversedQty(details, skipped, p, k - 1)

\* the delete of c found a complete transaction of its business and has returned
DeletedComplete(c) ==
    /\ Finished(c, "deleteTransaction")
    /\ calls[c].old.status = "complete"

C29_FailedDeleteChangesNothing ==
    \A c \in Procs :
        (Finished(c, "deleteTransaction") /\ calls[c].res = "err") => StoreAsBefore(c)

\* the products the batch of c is about: the non-deleted ones of its business
BatchProducts(c) == {p \in Pids : pexists[p] /\ pbiz[p] = calls[c].bid}

\* those of them whose stored status was not resolve(stock) when the call began
StaleBefore(c) ==
    {p \in BatchProducts(c) : calls[c].preStatus[p] # Resolve(calls[c].preStock[p])}

\* C24 (as claimed): a successful updateStockStatusBatch leaves every product
\* of the business with status resolve(stock), changes no stock and no other
\* product, and returns the number of products whose status it corrected (so
\* that a second run finds nothing to correct).
C24_BatchResync ==
    \A c \in Procs : Succeeded(c, "updateStockStatusBatch") =>
        /\ stock = calls[c].preStock
        /\ \A p \in Pids :
              pstatus[p] = IF p \in BatchProducts(c) THEN Resolve(stock[p])
                           ELSE calls[c].preStatus[p]
        /\ calls[c].updated = Cardinality(StaleBefore(c))
        /\ calls[c].updated = Cardinality({p \in Pids : pstatus[p] # calls[c].preStatus[p]})

\* C25 (as claimed): when updateGeneralTransaction returns an error because
\* its transaction write failed, the balance equals its value before the call
\* and the stored amount is unchanged.
C25_UpdateFailureRestoresBalance ==
    \A c \in Procs :
        ( /\ Finished(c, "updateGeneralTransaction")
          /\ calls[c].res = "err"
          /\ calls[c].err = "UpdateFailed" ) =>
        /\ balance = calls[c].preBalance
        /\ txs[calls[c].tx].amount = calls[c].preTxs[calls[c].tx].amount

\* the delete of c succeeded on a sale that was recorded, then cancelled,
\* then deleted, with no other call in between
DeletedCancelledSale(c) ==
    /\ Succeeded(c, "deleteTransaction")
    /\ fresh.tx = calls[c].tx
    /\ calls[c].old.status = "cancel"
    /\ calls[c].old.category = "Sales"

\* C26: when a completed sale is cancelled and then deleted, the delete
\* reverses nothing: afterwards every stock is still lowered by the sold
\* quantity and the balance still raised by the sale's amount with respect to
\* their values before the sale; and a delete or cancel called on a deleted
\* transaction changes nothing.
C26_CancelThenDeleteKeepsEffect ==
    \A c \in Procs :
        /\ DeletedCancelledSale(c) =>
              /\ txs[calls[c].tx].deleted
              /\ stock = [p \in Pids |-> fresh.stock[p] - QtyOf(calls[c].old.details, p)]
              /\ balance = [fresh.balance EXCEPT ![calls[c].bid] = @ + calls[c].old.amount]
        /\ ( /\ calls[c].op \in {"deleteTransaction", "cancelTransaction"}
             /\ calls[c].preTxs[calls[c].tx].deleted ) => StoreAsBefore(c)

C26_Witness ==
    \E c \in Procs :
        /\ DeletedCancelledSale(c)
        /\ Len(calls[c].old.details) = 2
        /\ balance[calls[c].bid] # fresh.balance[calls[c].bid]

\* the signed sum of the amounts of the rows of business b that count: present,
\* not soft-deleted, complete
RECURSIVE LedgerSum(_, _)
LedgerSum(b, ids) ==
    IF ids = {} THEN 0
    ELSE LET t == CHOOSE x \in ids : TRUE
             counts == /\ txs[t].exists
                       /\ ~txs[t].deleted
                       /\ txs[t].status = "complete"
                       /\ txs[t].business_id = b
         IN (IF ~counts THEN 0
             ELSE IF txs[t].type = "Income" THEN txs[t].amount
             ELSE 0 - txs[t].amount) + LedgerSum(b, ids \ {t})

\* every call made so far has returned, with success
OnlySuccessfulCalls ==
    \A c \in Procs : calls[c].pc \in {"idle", "done"} /\ calls[c].clean /\ calls[c].res # "err"

\* C27: after any sequence of successful calls that do not overlap, the balance
\* of every business is its initial balance plus the amounts of its complete,
\* non-deleted Income transactions minus those of its complete, non-deleted
\* Expense transactions.
C27_LedgerConsistency ==
    OnlySuccessfulCalls =>
        \A b \in Bids : balance[b] - LedgerSum(b, Rows) \in InitBalances

\* the call of c was made on a transaction that was soft-deleted already
OnDeleted(c) ==
    /\ calls[c].op \in {"deleteTransaction", "updateGeneralTransaction"}
    /\ calls[c].preTxs[calls[c].tx].exists
    /\ calls[c].preTxs[calls[c].tx].deleted

\* C30: a deleteTransaction or updateGeneralTransaction called on a
\* transaction that is soft-deleted changes no stock, balance or transaction
\* at any of its steps, and returns the error 'Transaction not found'.
C30_DeletedIsGone ==
    \A c \in Procs :
        OnDeleted(c) =>
            /\ StoreAsBefore(c)
            /\ calls[c].pc = "done" =>
                  /\ calls[c].res = "err"
                  /\ calls[c].err = "TransactionNotFound"

C30_Witness ==
    \E c \in Procs :
        /\ OnDeleted(c)
        /\ Finished(c, "updateGeneralTransaction")
        /\ calls[c].err = "TransactionNotFound"
        /\ calls[c].data.amount # <<>>
        /\ calls[c].preTxs[calls[c].tx].status = "complete"
        /\ calls[c].faults = 0

\* both callers have finished a deleteTransaction of the same complete
\* transaction t, the two calls having arrived in the same state of the store,
\* and the store rejected nothing
DeletedByBoth(t) ==
    /\ \A c \in Racers :
          /\ Finished(c, "deleteTransaction")
          /\ calls[c].tx = t
          /\ calls[c].bid = calls[1].bid
          /\ calls[c].preStock = calls[1].preStock
          /\ calls[c].preBalance = calls[1].preBalance
          /\ calls[c].preTxs = calls[1].preTxs
    /\ calls[1].preTxs[t].exists
    /\ ~calls[1].preTxs[t].deleted
    /\ calls[1].preTxs[t].status = "complete"
    /\ calls[1].preTxs[t].business_id = calls[1].bid
    /\ NothingRejected

\* C28: whatever the interleaving of two deleteTransaction calls on the same
\* complete transaction, its effects are reversed once: the balance is the one
\* before the calls less the amount (Income) or plus the amount (Expense), and
\* every stock the one before the calls with the lines' quantities given back
\* (Income) or taken back (Expense) once.
C28_ConcurrentDeletesReverseOnce ==
    \A t \in TxIds :
        DeletedByBoth(t) =>
            LET old == calls[1].preTxs[t]
            IN /\ txs[t].deleted
               /\ balance = [calls[1].preBalance EXCEPT ![old.business_id] =
                                ReversedBalance(@, old.type, old.amount)]
               /\ stock = [p \in Pids |->
                            ReversedStock(calls[1].preStock[p], old.type,
                                          QtyOf(old.details, p))]

====
